---- MODULE Spec2Model ----
(***************************************************************************)
(* Model of smol_k8s_lab/tui/app_widgets/input_widgets.py: the two input   *)
(* widgets (SmolK8sLabCollapsibleInputsWidget, SmolK8sLabInputsWidget),    *)
(* their on_mount / generate_input_row row construction and their          *)
(* Input.Changed / Switch.Changed handlers over the shared app.cfg and     *)
(* screen.sensitive_values.                                                *)
(*                                                                         *)
(* A python str is a sequence of one-character strings, so that split,     *)
(* strip and join are computed and not assumed.                            *)
(***************************************************************************)
EXTENDS Naturals, Sequences, FiniteSets

VARIABLES
    variant,            \* which widget class: "collapsible" | "flat"
    app_name,           \* self.app_name (the owner id)
    inputs,             \* self.inputs: ordered <<key, value>> pairs (a python dict)
    tooltips,           \* self.tooltips: the keys that have a (non-empty) tooltip
    add_fields_button,  \* self.add_fields_button
    bell_on_error,      \* self.app.bell_on_error
    phase,              \* "new" | "mounted" | "crashed" (on_mount raised)
    error,              \* the exception on_mount raised, "" when none
    rows,               \* the rows mounted into the grid, in order
    button,             \* whether the "new field" Button was mounted
    cfg,                \* self.app.cfg['apps']: owner -> [init: [values, <switch>...]]
    sensitive_values,   \* self.screen.sensitive_values: owner -> key -> value
    saved,              \* the document handed to the latest app.write_yaml()
    writes,             \* write_yaml() calls made by the latest event
    notices,            \* notify() severities emitted by the latest event
    bells,              \* bell() calls made by the latest event
    last,               \* the latest event handled
    nEvents             \* events handled so far

vars == <<variant, app_name, inputs, tooltips, add_fields_button, bell_on_error,
          phase, error, rows, button, cfg, sensitive_values, saved, writes,
          notices, bells, last, nEvents>>

\* ---- bounds ----------------------------------------------------------
MaxEvents == 2
MaxKeys == 2

\* Length(minimum=2), the validator attached to every Input
MinLength == 2

\* ---- python strings ----------------------------------------------------
S1(a) == <<a>>
S2(a, b) == <<a, b>>
S3(a, b, c) == <<a, b, c>>
S4(a, b, c, d) == <<a, b, c, d>>

\* "," in s
HasComma(s) == \E i \in 1..Len(s) : s[i] = ","

\* str.split(","): always at least one piece
RECURSIVE SplitComma(_)
SplitComma(s) ==
    IF ~HasComma(s) THEN <<s>>
    ELSE LET i == CHOOSE k \in 1..Len(s) :
                      s[k] = "," /\ \A j \in 1..(k - 1) : s[j] # ","
         IN <<SubSeq(s, 1, i - 1)>> \o SplitComma(SubSeq(s, i + 1, Len(s)))

\* str.strip() for the blank
RECURSIVE Strip(_)
Strip(s) ==
    IF s = <<>> THEN s
    ELSE IF Head(s) = " " THEN Strip(Tail(s))
    ELSE IF s[Len(s)] = " " THEN Strip(SubSeq(s, 1, Len(s) - 1))
    ELSE s

\* sep.join(items)
RECURSIVE Join(_, _)
Join(items, sep) ==
    IF items = <<>> THEN <<>>
    ELSE IF Len(items) = 1 THEN items[1]
    ELSE items[1] \o sep \o Join(Tail(items), sep)

CommaSpace == <<",", " ">>

MapStrip(pieces) == [i \in 1..Len(pieces) |-> Strip(pieces[i])]
NonEmpty(s) == s # <<>>

\* smol_k8s_lab.tui.util.create_sanitized_list: split on commas, trim each
\* element, drop the empty ones
create_sanitized_list(s) == SelectSeq(MapStrip(SplitComma(s)), NonEmpty)

\* ---- python values found in the yaml ----------------------------------
\* kind: "none" (None), "str", "list" (a list / CommentedSeq of str),
\* "nested" (a list whose elements are lists of str), "numlist" (a non-empty
\* list whose first element is neither str nor list), "dict" (a mapping:
\* env = "" is the empty mapping {}, otherwise {value_from: {env: <env>}})
Val(k, s, items, inner, env) ==
    [kind |-> k, s |-> s, items |-> items, inner |-> inner, env |-> env]
PyNone == Val("none", <<>>, <<>>, <<>>, "")
Str(s) == Val("str", s, <<>>, <<>>, "")
List(items) == Val("list", <<>>, items, <<>>, "")
Nested(inner) == Val("nested", <<>>, <<>>, inner, "")
NumList == Val("numlist", <<>>, <<>>, <<>>, "")
Dict(env) == Val("dict", <<>>, <<>>, <<>>, env)

\* python truthiness: `if value:`
Truthy(v) ==
    CASE v.kind = "none" -> FALSE
      [] v.kind = "str" -> v.s # <<>>
      [] v.kind = "list" -> v.items # <<>>
      [] v.kind = "nested" -> v.inner # <<>>
      [] v.kind = "numlist" -> TRUE
      [] v.kind = "dict" -> v.env # ""

\* isinstance(value, CommentedSeq) or isinstance(value, list)
IsSeq(v) == v.kind \in {"list", "nested", "numlist"}
\* isinstance(value, dict)
IsDict(v) == v.kind = "dict"

\* the environment the secret references point into
SecretStore(env) ==
    IF env = "PASSWORD_ENV" THEN S3("b", "a", "b") ELSE S2("a", "a")

\* smol_k8s_lab.utils.value_from.extract_secret: resolves a secret reference
\* to its displayable value
extract_secret(v) == Str(SecretStore(v.env))

\* lines 95-100: ", ".join(value) when value[0] is a str, ", ".join(value[0])
\* when value[0] is a list
JoinWithBlank(v) ==
    IF v.kind = "list" THEN Join(v.items, <<" ">>) ELSE Join(v.inner[1], <<" ">>)
sequence_value(v) ==
    IF v.kind = "list" THEN Join(v.items, CommaSpace)
    ELSE Join(v.inner[1], CommaSpace)

\* whether sequence_value gets bound at all (neither isinstance branch taken
\* leaves it unbound and line 103 raises)
SequenceValueBound(v) == v.kind \in {"list", "nested"}

\* ---- generate_input_row ---------------------------------------------------
\* input_keys after the `if value:` block of the collapsible widget: the
\* 'password' and 'value' keys exist only when the block ran
CollapsibleInputKeys(value) ==
    IF ~Truthy(value)
    THEN [has_password |-> FALSE, password |-> FALSE,
          has_value |-> FALSE, value |-> value, error |-> ""]
    ELSE IF IsSeq(value)
    THEN IF SequenceValueBound(value)
         THEN [has_password |-> TRUE, password |-> FALSE,
               has_value |-> TRUE, value |-> Str(sequence_value(value)),
               error |-> ""]
         ELSE [has_password |-> FALSE, password |-> FALSE,
               has_value |-> FALSE, value |-> value,
               error |-> "UnboundLocalError"]
    ELSE IF IsDict(value)
    THEN [has_password |-> TRUE, password |-> TRUE,
          has_value |-> TRUE, value |-> extract_secret(value), error |-> ""]
    ELSE [has_password |-> TRUE, password |-> FALSE,
          has_value |-> TRUE, value |-> value, error |-> ""]

\* input_keys of the flat widget: 'password' starts False and 'value' is
\* always assigned, whatever the value was
FlatInputKeys(value) ==
    IF ~Truthy(value)
    THEN [has_password |-> TRUE, password |-> FALSE,
          has_value |-> TRUE, value |-> value, error |-> ""]
    ELSE IF IsSeq(value)
    THEN IF SequenceValueBound(value)
         THEN [has_password |-> TRUE, password |-> FALSE,
               has_value |-> TRUE, value |-> Str(sequence_value(value)),
               error |-> ""]
         ELSE [has_password |-> TRUE, password |-> FALSE,
               has_value |-> TRUE, value |-> value,
               error |-> "UnboundLocalError"]
    ELSE IF IsDict(value)
    THEN [has_password |-> TRUE, password |-> TRUE,
          has_value |-> TRUE, value |-> extract_secret(value), error |-> ""]
    ELSE [has_password |-> TRUE, password |-> FALSE,
          has_value |-> TRUE, value |-> value, error |-> ""]

\* the tooltip chosen for the Input; reading input_keys['password'] raises
\* KeyError when the key was never set
Tooltip(keys, key, tips) ==
    IF key \in tips THEN "explicit"
    ELSE IF ~keys.has_password THEN "KeyError"
    ELSE IF keys.password THEN "env_var"
    ELSE IF key = "s3_provider" THEN "s3_provider"
    ELSE "placeholder"

\* Input(**input_keys): password defaults to False, value to "" (also for
\* value=None); any other value handed in is kept as it is
InputWidget(keys, key, tip, app) ==
    [name |-> key,
     password |-> IF keys.has_password THEN keys.password ELSE FALSE,
     value |-> IF ~keys.has_value \/ keys.value.kind = "none"
               THEN Str(<<>>) ELSE keys.value,
     tooltip |-> tip,
     dns_note |-> app = "metallb"]

NoField == InputWidget(CollapsibleInputKeys(PyNone), "", "", "")

RowFrom(keys, app, key, tips) ==
    IF keys.error # "" THEN [error |-> keys.error, field |-> NoField]
    ELSE LET tip == Tooltip(keys, key, tips)
         IN IF tip = "KeyError" THEN [error |-> "KeyError", field |-> NoField]
            ELSE [error |-> "", field |-> InputWidget(keys, key, tip, app)]

collapsible_generate_input_row(app, key, value, tips) ==
    RowFrom(CollapsibleInputKeys(value), app, key, tips)

flat_generate_input_row(app, key, value, tips) ==
    RowFrom(FlatInputKeys(value), app, key, tips)

\* ---- on_mount ---------------------------------------------------------------
\* the loop `for key, value in self.inputs.items()`: rows mounted so far and
\* the exception that ended the loop, if any
RECURSIVE CollapsibleMountRows(_, _, _)
CollapsibleMountRows(app, pairs, tips) ==
    IF pairs = <<>> THEN [rows |-> <<>>, error |-> ""]
    ELSE LET g == collapsible_generate_input_row(
                      app, Head(pairs).key, Head(pairs).value, tips)
         IN IF g.error # "" THEN [rows |-> <<>>, error |-> g.error]
            ELSE LET rest == CollapsibleMountRows(app, Tail(pairs), tips)
                 IN [rows |-> <<g.field>> \o rest.rows, error |-> rest.error]

RECURSIVE FlatMountRows(_, _, _)
FlatMountRows(app, pairs, tips) ==
    IF pairs = <<>> THEN [rows |-> <<>>, error |-> ""]
    ELSE IF Head(pairs).key = "trusted_key_servers"
    THEN FlatMountRows(app, Tail(pairs), tips)
    ELSE LET g == flat_generate_input_row(
                      app, Head(pairs).key, Head(pairs).value, tips)
         IN IF g.error # "" THEN [rows |-> <<>>, error |-> g.error]
            ELSE LET rest == FlatMountRows(app, Tail(pairs), tips)
                 IN [rows |-> <<g.field>> \o rest.rows, error |-> rest.error]

\* ---- the configuration document -------------------------------------------
Variants == {"collapsible", "flat"}
Owners == {"metallb", "vouch", "nextcloud"}
Keys == {"hostname", "password", "s3_provider", "trusted_key_servers"}
SwitchNames == {"create_minio_tenant", "enabled"}

\* a key the mapping does not hold
Absent == Val("absent", <<>>, <<>>, <<>>, "")

\* dict lookup over the ordered pairs
RECURSIVE Lookup(_, _)
Lookup(pairs, key) ==
    IF pairs = <<>> THEN Absent
    ELSE IF Head(pairs).key = key THEN Head(pairs).value
    ELSE Lookup(Tail(pairs), key)

\* self.app.cfg['apps'][owner]: {'init': {'values': {...}, <switch>: bool}}
AppCfg(pairs) ==
    [init |-> [values |-> [k \in Keys |-> Lookup(pairs, k)],
               create_minio_tenant |-> FALSE,
               enabled |-> FALSE]]

\* the document of the session: the widget's inputs are its owner's
\* init values, the other owners hold no values yet
InitialCfg(owner, pairs) ==
    [o \in Owners |-> IF o = owner THEN AppCfg(pairs) ELSE AppCfg(<<>>)]

NoSnapshot == InitialCfg("", <<>>)
NoEvent ==
    [kind |-> "none", name |-> "", text |-> <<>>, valid |-> FALSE,
     password |-> FALSE, truthy |-> FALSE]

\* ---- Input.Changed ------------------------------------------------------------
\* line 157: self.app_name in ["metallb", "vouch"] or "," in input.value
OnlyOnComma(app, text) == HasComma(text)
UseList(app, text) == app \in {"metallb", "vouch"} \/ HasComma(text)

\* lines 149-161: what the handler leaves in
\* cfg['apps'][app]['init']['values'] (parent_yaml)
WritesWhenInvalid(doc, app, name, text, password, valid) ==
    IF UseList(app, text)
    THEN [doc EXCEPT ![app].init.values[name] =
                         List(create_sanitized_list(text))]
    ELSE IF ~password
    THEN [doc EXCEPT ![app].init.values[name] = Str(text)]
    ELSE doc
cfg_after_input(doc, app, name, text, password, valid) ==
    IF ~valid THEN doc
    ELSE IF UseList(app, text)
    THEN [doc EXCEPT ![app].init.values[name] =
                         List(create_sanitized_list(text))]
    ELSE IF ~password
    THEN [doc EXCEPT ![app].init.values[name] = Str(text)]
    ELSE doc

\* event.validation_result.is_valid for the Length(minimum=2) validator
IsValid(text) == Len(text) >= MinLength

\* the whole handler, the same text in both widgets (lines 147-176, 319-348)
input_validation(input, text) ==
    LET valid == IsValid(text)
    IN /\ cfg' = cfg_after_input(cfg, app_name, input.name, text,
                                 input.password, valid)
       /\ IF valid /\ ~input.password
          THEN saved' = cfg' /\ writes' = 1
          ELSE saved' = saved /\ writes' = 0
       /\ sensitive_values' =
              IF valid /\ input.password
              THEN [sensitive_values EXCEPT ![app_name][input.name] = Str(text)]
              ELSE sensitive_values
       /\ bells' = IF ~valid /\ bell_on_error THEN 1 ELSE 0
       /\ notices' = IF valid THEN <<>> ELSE <<"warning">>
       /\ last' = [kind |-> "input", name |-> input.name, text |-> text,
                   valid |-> valid, password |-> input.password,
                   truthy |-> FALSE]
       /\ nEvents' = nEvents + 1

\* ---- Switch.Changed -----------------------------------------------------------
\* line 187: truthy and event.switch.name == "create_minio_tenant"
NoticeOnAnyToggle(name, truthy) ==
    IF name = "create_minio_tenant" THEN <<"information">> ELSE <<>>
switch_notices(name, truthy) ==
    IF truthy /\ name = "create_minio_tenant" THEN <<"information">> ELSE <<>>

\* the whole handler, the same text in both widgets (lines 178-188, 350-360)
update_base_yaml_for_switch(name, truthy) ==
    /\ cfg' = [cfg EXCEPT ![app_name].init[name] = truthy]
    /\ saved' = cfg'
    /\ writes' = 1
    /\ notices' = switch_notices(name, truthy)
    /\ bells' = 0
    /\ last' = [kind |-> "switch", name |-> name, text |-> <<>>,
                valid |-> FALSE, password |-> FALSE, truthy |-> truthy]
    /\ nEvents' = nEvents + 1
    /\ UNCHANGED sensitive_values

\* ---- what the user can type ---------------------------------------------------
Texts ==
    { S1("a"), S1(","), S2("a", "b"), S3("a", ",", "b"),
      S4(" ", ",", ",", "a") }

\* the text of an event on a row: something typed, or the text the row
\* was generated with
EventTexts(row) ==
    Texts \cup (IF row.value.kind = "str" THEN {row.value.s} ELSE {})

mountVars == <<variant, app_name, inputs, tooltips, add_fields_button,
               bell_on_error, phase, error, rows, button>>
eventVars == <<cfg, sensitive_values, saved, writes, notices, bells, last,
               nEvents>>

\* ---- actions ------------------------------------------------------------------
CollapsibleOnMount ==
    /\ variant = "collapsible"
    /\ phase = "new"
    /\ LET m == IF inputs = <<>>
                THEN [rows |-> <<>>, error |-> "NoMatches"]
                ELSE CollapsibleMountRows(app_name, inputs, tooltips)
       IN /\ rows' = m.rows
          /\ error' = m.error
          /\ phase' = IF m.error = "" THEN "mounted" ELSE "crashed"
          /\ button' = (m.error = "" /\ add_fields_button)
    /\ UNCHANGED <<variant, app_name, inputs, tooltips, add_fields_button,
                   bell_on_error>>
    /\ UNCHANGED eventVars

FlatOnMount ==
    /\ variant = "flat"
    /\ phase = "new"
    /\ LET m == FlatMountRows(app_name, inputs, tooltips)
       IN /\ rows' = m.rows
          /\ error' = m.error
          /\ phase' = IF m.error = "" THEN "mounted" ELSE "crashed"
          /\ button' = (m.error = "" /\ add_fields_button)
    /\ UNCHANGED <<variant, app_name, inputs, tooltips, add_fields_button,
                   bell_on_error>>
    /\ UNCHANGED eventVars

CollapsibleInputChanged ==
    /\ variant = "collapsible"
    /\ phase = "mounted"
    /\ nEvents < MaxEvents
    /\ \E i \in 1..Len(rows) : \E text \in EventTexts(rows[i]) :
           input_validation(rows[i], text)
    /\ UNCHANGED mountVars

FlatInputChanged ==
    /\ variant = "flat"
    /\ phase = "mounted"
    /\ nEvents < MaxEvents
    /\ \E i \in 1..Len(rows) : \E text \in EventTexts(rows[i]) :
           input_validation(rows[i], text)
    /\ UNCHANGED mountVars

CollapsibleSwitchChanged ==
    /\ variant = "collapsible"
    /\ phase = "mounted"
    /\ nEvents < MaxEvents
    /\ \E name \in SwitchNames : \E truthy \in BOOLEAN :
           update_base_yaml_for_switch(name, truthy)
    /\ UNCHANGED mountVars

FlatSwitchChanged ==
    /\ variant = "flat"
    /\ phase = "mounted"
    /\ nEvents < MaxEvents
    /\ \E name \in SwitchNames : \E truthy \in BOOLEAN :
           update_base_yaml_for_switch(name, truthy)
    /\ UNCHANGED mountVars

\* ---- initial states -----------------------------------------------------------
Pair(k, v) == [key |-> k, value |-> v]

\* the state right after the constructor, before any event
Constructed(v, app, pairs, tips, addb, bell) ==
    /\ variant = v
    /\ app_name = app
    /\ inputs = pairs
    /\ tooltips = tips
    /\ add_fields_button = addb
    /\ bell_on_error = bell
    /\ phase = "new"
    /\ error = ""
    /\ rows = <<>>
    /\ button = FALSE
    /\ cfg = InitialCfg(app, pairs)
    /\ sensitive_values = [o \in Owners |-> [k \in Keys |-> Absent]]
    /\ saved = NoSnapshot
    /\ writes = 0
    /\ notices = <<>>
    /\ bells = 0
    /\ last = NoEvent
    /\ nEvents = 0

\* the values a hostname entry of the yaml holds in the event runs
HostSources ==
    { Str(S2("a", "b")), List(<<S2("a", "b")>>), List(<<S1("a"), S1("b")>>),
      List(<<S2("a", "b"), S1("b")>>), List(<<S1("a"), S2(" ", "b")>>) }

Init ==
    \E v \in Variants : \E app \in Owners : \E bell \in BOOLEAN :
    \E h \in HostSources :
        Constructed(v, app,
                    <<Pair("password", Dict("PASSWORD_ENV")),
                      Pair("hostname", h)>>,
                    {}, FALSE, bell)

Next ==
    \/ CollapsibleOnMount
    \/ FlatOnMount
    \/ CollapsibleInputChanged
    \/ FlatInputChanged
    \/ CollapsibleSwitchChanged
    \/ FlatSwitchChanged

Spec == Init /\ [][Next]_vars

\* ---- row construction on its own ----------------------------------------------
\* the value shapes a yaml entry can have
SourceValues ==
    { PyNone, Str(<<>>), Str(S1("a")), Str(S2("a", "b")),
      List(<<>>), List(<<S2("a", "b")>>), List(<<S1("a"), S1("b")>>),
      Nested(<<<<S1("a"), S1("b")>>, <<S1("b")>>>>), NumList,
      Dict(""), Dict("PASSWORD_ENV") }

\* the mappings of at most MaxKeys entries, in every iteration order
PairSeqs(n) ==
    { f \in [1..n -> { Pair(k, v) : k \in Keys, v \in SourceValues }] :
          \A i, j \in 1..n : i # j => f[i].key # f[j].key }
InputMappings == UNION { PairSeqs(n) : n \in 0..MaxKeys }

KeysOf(pairs) == { pairs[i].key : i \in 1..Len(pairs) }

InitMount ==
    \E v \in Variants : \E app \in Owners : \E addb \in BOOLEAN :
    \E pairs \in InputMappings : \E tips \in SUBSET KeysOf(pairs) :
        Constructed(v, app, pairs, tips, addb, FALSE)

NextMount ==
    \/ CollapsibleOnMount
    \/ FlatOnMount

SpecMount == InitMount /\ [][NextMount]_vars

\* ---- vocabulary of the properties ------------------------------------------
\* the value the yaml held for a key when the widget was built
Source(name) == Lookup(inputs, name)

\* the row generated for a key
RowOf(name) == rows[CHOOSE i \in 1..Len(rows) : rows[i].name = name]

\* the last event was an Input.Changed with a valid result on a field that
\* is (or is not) a password field
ValidEdit(password) ==
    last.kind = "input" /\ last.valid /\ last.password = password

\* the stored form of a raw text, as the handler is described: the list of
\* its comma-separated pieces, trimmed, without the empty ones, for the
\* owners metallb and vouch and for any text with a comma; the text otherwise
StoredForm(owner, text) ==
    IF owner \in {"metallb", "vouch"} \/ HasComma(text)
    THEN List(create_sanitized_list(text))
    ELSE Str(text)

\* a step that handled one event
EventStep == nEvents' = nEvents + 1

\* ---- C1 ------------------------------------------------------------------------
\* C1: in every reachable state, the entry of a password field under
\* cfg[owner].init.values is the one the yaml had (no edit of a password
\* field is ever written there), and a valid edit of a password field is
\* found in sensitive_values[owner][name].
C1_SensitiveNeverInConfig ==
    /\ \A i \in 1..Len(rows) :
           rows[i].password =>
               cfg[app_name].init.values[rows[i].name] = Source(rows[i].name)
    /\ ValidEdit(TRUE) =>
           sensitive_values[app_name][last.name] = Str(last.text)

\* ---- C2 ------------------------------------------------------------------------
\* C2: no document handed to write_yaml holds, for a password field,
\* anything but the entry the yaml had: a save triggered by another field
\* or by a switch never persists what was typed into a password field.
C2_SnapshotsHoldNoSecret ==
    saved # NoSnapshot =>
        \A i \in 1..Len(rows) :
            rows[i].password =>
                saved[app_name].init.values[rows[i].name] = Source(rows[i].name)

\* ---- C3 ------------------------------------------------------------------------
\* C3: an Input.Changed event whose validation result is invalid (any text
\* shorter than 2 characters is) changes neither cfg nor sensitive_values and
\* calls write_yaml not at all; it notifies one warning and rings the bell
\* exactly when bell_on_error is set.
C3_InvalidMutatesNothing ==
    [][(EventStep /\ last'.kind = "input"
            /\ (~last'.valid \/ Len(last'.text) < 2))
        => /\ ~last'.valid
           /\ cfg' = cfg
           /\ sensitive_values' = sensitive_values
           /\ saved' = saved
           /\ writes' = 0
           /\ notices' = <<"warning">>
           /\ bells' = (IF bell_on_error THEN 1 ELSE 0)]_vars

\* an invalid text with a comma was handled, the bell rang, and the
\* document is still the initial one
C3_Witness ==
    /\ last.kind = "input" /\ ~last.valid /\ last.text = S1(",")
    /\ bells = 1 /\ notices = <<"warning">>
    /\ cfg = InitialCfg(app_name, inputs)

\* ---- C4 ------------------------------------------------------------------------
\* C4: after a valid edit of a field that is not a password field, the
\* entry cfg[owner].init.values[name] is the comma-split, trimmed list without
\* empty pieces when the owner is metallb or vouch or the text has a comma
\* (metallb with "a,b" stores ["a", "b"], metallb with "ab" stores ["ab"]),
\* and the raw text otherwise; the document handed to the one write_yaml call
\* of the event already holds that entry.
C4_StoredValue ==
    ValidEdit(FALSE) =>
        /\ cfg[app_name].init.values[last.name] = StoredForm(app_name, last.text)
        /\ (app_name = "metallb" /\ last.text = S3("a", ",", "b")) =>
               cfg[app_name].init.values[last.name] = List(<<S1("a"), S1("b")>>)
        /\ (app_name = "metallb" /\ last.text = S2("a", "b")) =>
               cfg[app_name].init.values[last.name] = List(<<S2("a", "b")>>)
        /\ (app_name = "nextcloud" /\ last.text = S2("a", "b")) =>
               cfg[app_name].init.values[last.name] = Str(S2("a", "b"))
        /\ writes = 1
        /\ saved = cfg

\* metallb stored a one-element list for a text without a comma
C4_Witness ==
    /\ ValidEdit(FALSE) /\ app_name = "metallb" /\ last.text = S2("a", "b")
    /\ cfg[app_name].init.values[last.name] = List(<<S2("a", "b")>>)
    /\ writes = 1

\* ---- C5 ------------------------------------------------------------------------
\* C5: a valid edit of a password field sets sensitive_values[owner][name]
\* to the raw text, calls write_yaml not at all, and leaves every other
\* entry of sensitive_values and the whole cfg as they were.
C5_SensitiveEditFrame ==
    [][(EventStep /\ last'.kind = "input" /\ last'.valid /\ last'.password)
        => /\ sensitive_values' =
                  [sensitive_values EXCEPT
                       ![app_name][last'.name] = Str(last'.text)]
           /\ writes' = 0
           /\ saved' = saved
           /\ cfg' = cfg]_vars

\* ---- C6 ------------------------------------------------------------------------
\* C6: a Switch.Changed event writes cfg[owner].init[switch] = value, hands
\* the document with that entry to write_yaml exactly once, leaves
\* cfg[owner].init.values and sensitive_values as they were, and notifies
\* once exactly when the switch is create_minio_tenant and the value is true.
C6_SwitchEffect ==
    [][(EventStep /\ last'.kind = "switch")
        => /\ cfg' = [cfg EXCEPT ![app_name].init[last'.name] = last'.truthy]
           /\ cfg'[app_name].init.values = cfg[app_name].init.values
           /\ saved' = cfg'
           /\ writes' = 1
           /\ sensitive_values' = sensitive_values
           /\ Len(notices') =
                  (IF last'.name = "create_minio_tenant" /\ last'.truthy
                   THEN 1 ELSE 0)]_vars

\* create_minio_tenant was switched on: one notice, one save
C6_Witness ==
    /\ last.kind = "switch" /\ last.name = "create_minio_tenant" /\ last.truthy
    /\ cfg[app_name].init.create_minio_tenant = TRUE
    /\ notices = <<"information">> /\ writes = 1 /\ saved = cfg

\* ---- C7 ------------------------------------------------------------------------
\* C7: every generated field is a password field exactly when the value
\* the yaml held for it is a mapping (the empty mapping included), and then
\* shows what extract_secret gives for that mapping.
C7_SensitiveIffMapping ==
    \A i \in 1..Len(rows) :
        /\ rows[i].password <=> IsDict(Source(rows[i].name))
        /\ IsDict(Source(rows[i].name)) =>
               rows[i].value = extract_secret(Source(rows[i].name))

\* ---- C8 ------------------------------------------------------------------------
\* C8: a field generated from a sequence of strings (the empty and the
\* one-element sequence included) shows the elements joined by ", " and is
\* no password field; one generated from a sequence of sequences shows the
\* first inner sequence joined by ", ".
C8_SequenceDisplay ==
    \A i \in 1..Len(rows) :
        LET src == Source(rows[i].name)
        IN /\ src.kind = "list" =>
                  /\ rows[i].value = Str(Join(src.items, CommaSpace))
                  /\ ~rows[i].password
           /\ (src.kind = "nested" /\ src.inner # <<>>) =>
                  rows[i].value = Str(Join(src.inner[1], CommaSpace))

\* ---- C9 ------------------------------------------------------------------------
\* the keys on_mount makes rows for: all of them, but trusted_key_servers in
\* the flat widget
RECURSIVE ExpectedKeys(_, _)
ExpectedKeys(v, pairs) ==
    IF pairs = <<>> THEN <<>>
    ELSE IF v = "flat" /\ Head(pairs).key = "trusted_key_servers"
    THEN ExpectedKeys(v, Tail(pairs))
    ELSE <<Head(pairs).key>> \o ExpectedKeys(v, Tail(pairs))

RowNames == [i \in 1..Len(rows) |-> rows[i].name]

\* C9: on_mount ends without an exception for every inputs mapping, with
\* one row per key that is not excluded, in the mapping's order.
C9_MountCompletes ==
    phase # "new" =>
        /\ phase = "mounted"
        /\ error = ""
        /\ RowNames = ExpectedKeys(variant, inputs)

\* ---- C10 -----------------------------------------------------------------------
Clean(e) == e # <<>> /\ ~HasComma(e) /\ Strip(e) = e

\* the last event fed the text a row was generated with back, unchanged and
\* valid, for a field whose yaml value is a non-empty sequence of clean strings
RoundTripCase ==
    /\ ValidEdit(FALSE)
    /\ Source(last.name).kind = "list"
    /\ Source(last.name).items # <<>>
    /\ \A j \in 1..Len(Source(last.name).items) :
           Clean(Source(last.name).items[j])
    /\ last.text = sequence_value(Source(last.name))
    /\ RowOf(last.name).value = Str(last.text)

\* C10 as stated: the round trip stores the original sequence, for every
\* owner and every length
C10_RoundTripAlways ==
    RoundTripCase => cfg[app_name].init.values[last.name] = Source(last.name)

\* C10: the round trip stores the original sequence when the owner is
\* metallb or vouch or the sequence has at least two elements; for any other
\* owner a one-element sequence comes back as its element, a plain string.
C10_RoundTrip ==
    RoundTripCase =>
        IF app_name \in {"metallb", "vouch"} \/ Len(Source(last.name).items) >= 2
        THEN cfg[app_name].init.values[last.name] = Source(last.name)
        ELSE cfg[app_name].init.values[last.name] =
                 Str(Source(last.name).items[1])

\* a two-element sequence of another owner made the round trip
C10_Witness ==
    /\ RoundTripCase
    /\ app_name = "nextcloud"
    /\ Len(Source(last.name).items) = 2
    /\ cfg[app_name].init.values[last.name] = Source(last.name)

====
